---------------------------- MODULE Spec2Model ----------------------------
(***************************************************************************)
(* A model of the two tutorial notebooks of the repository:                *)
(*   src/redshift-database.ipynb         (the redshift database tutorial)  *)
(*   src/Dec2020/galaxies/fitting_sps.ipynb   (fitting spectra with SPS)   *)
(*                                                                         *)
(* A notebook is a sequence of cells run top to bottom; pc names the cell  *)
(* that runs next.  The database is five tables, each a set of rows.       *)
(* Strings are sequences of one-character strings, so that padding, LIKE   *)
(* and == on strings are computed and not assumed.  Redshifts are held in  *)
(* tenths (2.1 is 21).                                                     *)
(***************************************************************************)
EXTENDS Integers, Sequences, FiniteSets, TLC

VARIABLES
    pc,             \* the cell that runs next
    backend,        \* "sqlite" or "postgresql": the engine behind db.dbSession
    obslist,        \* table obslist      (db.ObsList),      key expid
    truth,          \* table truth        (db.Truth),        key targetid
    target,         \* table target       (db.Target),       key targetid
    zcat,           \* table zcat         (db.ZCat),         key targetid
    fiberassign,    \* table fiberassign  (db.FiberAssign),  key (tileid, fiber)
    q,              \* the notebook variable q (latest query result)
    q2,             \* the notebook variable q2
    out,            \* the value displayed by the latest all([...]) cell
    raised,         \* the cells that ended with a Python exception
    expid_up,       \* Moon section: ids of the exposures with the Moon up
    q_up,           \* Moon section: the "Moon up" query result
    q_dn,           \* Moon section: the "Moon down" query result
    unique_targetid,    \* Survey Progress: np.unique values
    unique_expid,       \* Survey Progress: exposure of the last observation
    unique_mjd,         \* Survey Progress: MJD of the last observation
    N_completed,        \* Survey Progress: cumulative number of targets
    disk,           \* Loading: the FITS files of the reference run, by path
    dbexists,       \* Loading: the SQLite file minitest-19.12.db exists
    loads,          \* Loading: what was read into which table, this run
    snapshot,       \* Loading: the tables as each completed load left them
    route,          \* Loading: "fresh" (create and load) or "existing" (skip)
    nruns,          \* Loading: the number of runs of the notebook started
    priors,         \* SPS: the prior object of Infer.load_priors
    random_thetas,  \* SPS: the five prior samples
    tt,             \* SPS: the loop variable the plotting cells leave behind
    spectra,        \* SPS: the coadded spectra read from the FITS file
    igal,           \* SPS: the index of the galaxy that is fitted
    zbest,          \* SPS: the column Z of the redshift table
    zred,           \* SPS: the redshift of the galaxy
    x0,             \* SPS: the mean of ten prior samples
    simplex,        \* SPS: the best point and value op.minimize holds, and its evaluations
    theta_bestfit,  \* SPS: min_result['x']
    lnp,            \* SPS: the latest evaluation of lnPost
    calls,          \* SPS: the calls made to the emulator, by cell
    desi_mcmc,      \* SPS: the Infer.desiMCMC object
    mcmc            \* SPS: the arguments and the outcome of desi_mcmc.run

dbvars == <<obslist, truth, target, zcat, fiberassign>>
moonvars == <<expid_up, q_up, q_dn>>
progvars == <<unique_targetid, unique_expid, unique_mjd, N_completed>>
loadvars == <<disk, dbexists, loads, snapshot, route, nruns>>
spsvars == <<priors, random_thetas, tt, spectra, igal, zbest, zred, x0, simplex,
             theta_bestfit, lnp, calls, desi_mcmc, mcmc>>
vars == <<pc, backend, obslist, truth, target, zcat, fiberassign, q, q2, out, raised,
          expid_up, q_up, q_dn, unique_targetid, unique_expid, unique_mjd, N_completed,
          disk, dbexists, loads, snapshot, route, nruns,
          priors, random_thetas, tt, spectra, igal, zbest, zred, x0, simplex,
          theta_bestfit, lnp, calls, desi_mcmc, mcmc>>

-----------------------------------------------------------------------------
(* Bounds of the model.                                                    *)
MaxTarget == 2      \* target ids are 1..MaxTarget
MaxExp == 2         \* exposure ids are 1..MaxExp

TargetIds == 1..MaxTarget
ExpIds == 1..MaxExp
TileIds == {1, 2}

NoRow == <<>>       \* marks a key that has no row in a table
None == "None"      \* Python's None: nothing displayed yet
Unset == <<>>       \* the value held for a name no cell has assigned yet

-----------------------------------------------------------------------------
(* Strings.                                                                *)
S_QSO == <<"Q", "S", "O">>
S_QSO_L == <<"Q", "S", "O", "_", "L">>
S_QSO_T == <<"Q", "S", "O", "_", "T">>
S_ELG == <<"E", "L", "G">>
S_qso == <<"q", "s", "o">>

\* Strings are loaded into the database with trailing blanks.
Pad(s) == s \o <<" ", " ">>

Upper(c) == CASE c = "q" -> "Q" [] c = "s" -> "S" [] c = "o" -> "O" [] OTHER -> c

FoldCase(s) == [i \in 1..Len(s) |-> Upper(s[i])]

\* column.like(prefix + '%'): SQLite's LIKE ignores ASCII case, PostgreSQL's
\* does not.
Like(s, prefix) ==
    /\ Len(s) >= Len(prefix)
    /\ IF backend = "sqlite"
       THEN FoldCase(SubSeq(s, 1, Len(prefix))) = FoldCase(prefix)
       ELSE SubSeq(s, 1, Len(prefix)) = prefix

\* Notebook variables of the sections a specification does not run.
InitOtherSections ==
    /\ expid_up = {} /\ q_up = {} /\ q_dn = {}
    /\ unique_targetid = Unset /\ unique_expid = Unset /\ unique_mjd = Unset
    /\ N_completed = Unset

\* The database notebook has none of the variables of the SPS notebook.
InitNoSps ==
    /\ priors = Unset /\ random_thetas = Unset /\ tt = Unset /\ spectra = Unset
    /\ igal = Unset /\ zbest = Unset /\ zred = Unset /\ x0 = Unset /\ simplex = Unset
    /\ theta_bestfit = Unset /\ lnp = Unset /\ calls = {} /\ desi_mcmc = Unset
    /\ mcmc = Unset

\* The query sections start from a database that is loaded.
InitLoaded ==
    /\ disk = Unset /\ dbexists = TRUE /\ loads = {} /\ snapshot = <<>>
    /\ route = "existing" /\ nruns = 1

-----------------------------------------------------------------------------
(* The Updates section of the database notebook.                           *)
ZLya == 21          \* truez >= 2.1, in tenths

TruezValues == {20, 21, 25}
TemplateValues == {Pad(S_QSO), S_QSO, Pad(S_ELG), Pad(S_qso), S_QSO_T, Pad(S_QSO_L)}

\* A slip: the filter on truez left out.
QSOQueryAnyRedshift == {row \in truth : Like(row.templatetype, S_QSO)}

\* query(db.Truth).filter(truez >= 2.1).filter(templatetype.like('QSO%')).all()
QSOQuery == {row \in truth : row.truez >= ZLya /\ Like(row.templatetype, S_QSO)}

\* A slip: the new value written with the padding of the loaded strings.
SetTemplateTypePadded(row) == [row EXCEPT !.templatetype = Pad(S_QSO_L)]

\* for row in q: row.templatetype = 'QSO_L'
SetTemplateType(row) == [row EXCEPT !.templatetype = S_QSO_L]

InitUpdate ==
    /\ pc = "qso_query"
    /\ backend \in {"sqlite", "postgresql"}
    /\ \E f \in [TargetIds -> {NoRow} \cup (TruezValues \X TemplateValues)] :
          truth = {[targetid |-> t, truez |-> f[t][1], templatetype |-> f[t][2]] :
                      t \in {u \in TargetIds : f[u] # NoRow}}
    /\ obslist = {} /\ target = {} /\ zcat = {} /\ fiberassign = {}
    /\ q = {}
    /\ q2 = Unset
    /\ out = None
    /\ raised = {}
    /\ InitOtherSections
    /\ InitNoSps
    /\ InitLoaded

\* q = db.dbSession.query(db.Truth)...all()
QSOQueryCell ==
    /\ pc = "qso_query"
    /\ q' = QSOQuery
    /\ pc' = "qso_update"
    /\ UNCHANGED <<backend, dbvars, q2, out, raised, moonvars, progvars, loadvars, spsvars>>

\* for row in q: row.templatetype = 'QSO_L' ; db.dbSession.commit()
\* The rows of q are the session's objects: the assignment changes them and
\* the commit writes them to the table.
UpdateCell ==
    /\ pc = "qso_update"
    /\ q' = {SetTemplateType(row) : row \in q}
    /\ truth' = {IF row \in q THEN SetTemplateType(row) ELSE row : row \in truth}
    /\ pc' = "qso_requery"
    /\ UNCHANGED <<backend, obslist, target, zcat, fiberassign, q2, out, raised, moonvars, progvars, loadvars, spsvars>>

\* "Did the change happen?": the same query again
RequeryCell ==
    /\ pc = "qso_requery"
    /\ q' = QSOQuery
    /\ pc' = "qso_check"
    /\ UNCHANGED <<backend, dbvars, q2, out, raised, moonvars, progvars, loadvars, spsvars>>

\* all([row.templatetype == 'QSO_L' for row in q])
CheckUpdateCell ==
    /\ pc = "qso_check"
    /\ out' = (\A row \in q : row.templatetype = S_QSO_L)
    /\ pc' = "qso_done"
    /\ UNCHANGED <<backend, dbvars, q, q2, raised, moonvars, progvars, loadvars, spsvars>>

NextUpdate == QSOQueryCell \/ UpdateCell \/ RequeryCell \/ CheckUpdateCell

SpecUpdate == InitUpdate /\ [][NextUpdate]_vars

\* C1: after the update and commit cells, the re-issued query returns only
\* rows whose templatetype is exactly 'QSO_L', so the displayed check is True,
\* whatever padding the stored strings had.
C1_UpdateVisible ==
    /\ pc = "qso_check" => \A row \in q : row.templatetype = S_QSO_L
    /\ pc = "qso_done" => out = TRUE

\* A padded QSO row at z >= 2.1 was updated and the check has been displayed.
C1_Witness ==
    /\ pc = "qso_done"
    /\ \E row \in q : row.templatetype = S_QSO_L
    /\ Cardinality(q) >= 2

-----------------------------------------------------------------------------
(* Table contents the notebooks can meet.  A fiber of a tile sits on one   *)
(* target; the fiber number is only part of the key of fiberassign and no  *)
(* query reads it, so target t is given fiber t on each tile it is         *)
(* assigned to.                                                            *)
FiberAssignOf(g) ==
    {[tileid |-> p[1], fiber |-> p[2], targetid |-> p[2]] :
        p \in {x \in TileIds \X TargetIds : x[1] \in g[x[2]]}}

ObsListOf(f) ==
    {[expid |-> e, tileid |-> f[e][1], moonalt |-> f[e][2], mjd |-> f[e][3]] :
        e \in {x \in ExpIds : f[x] # NoRow}}

ZCatOf(f) ==
    {[targetid |-> t, numexp |-> f[t][1]] : t \in {u \in TargetIds : f[u] # NoRow}}

-----------------------------------------------------------------------------
(* "A More Complicated Join": numexp against the number of assignments.    *)

\* The rows of FiberAssign x ObsList with FiberAssign.tileid == ObsList.tileid
JoinAssignObs ==
    {[fa |-> fa, ob |-> ob] : <<fa, ob>> \in
        {<<fa, ob>> \in fiberassign \X obslist : fa.tileid = ob.tileid}}

\* A slip: counting the assignments without joining the exposures.
CountStarNoObs(t) == Cardinality({fa \in fiberassign : fa.targetid = t})

\* func.count('*') of the group of ZCat.targetid = t in q1
CountStar(t) == Cardinality({j \in JoinAssignObs : j.fa.targetid = t})

\* q1: ZCat joined to FiberAssign and ObsList, grouped by ZCat.targetid.  A
\* target without a joined row has no group.  The bare columns tileid and
\* expid of a group, which no cell reads, are not kept.
Q1 ==
    {[targetid |-> z.targetid, n_assign |-> CountStar(z.targetid)] :
        z \in {y \in zcat : \E j \in JoinAssignObs : j.fa.targetid = y.targetid}}

\* q2: ZCat joined to q1 on targetid (order_by only orders the rows)
Q2 ==
    {[ZCat |-> z, targetid |-> g.targetid, n_assign |-> g.n_assign] : <<z, g>> \in
        {<<z, g>> \in zcat \X Q1 : z.targetid = g.targetid}}

InitJoin ==
    /\ pc = "join_query"
    /\ backend = "sqlite"
    /\ \E f \in [ExpIds -> {NoRow} \cup (TileIds \X {0} \X {0})] : obslist = ObsListOf(f)
    /\ \E g \in [TargetIds -> SUBSET TileIds] : fiberassign = FiberAssignOf(g)
    /\ \E f \in [TargetIds -> {NoRow} \cup {<<n>> : n \in 0..MaxExp}] : zcat = ZCatOf(f)
    /\ truth = {} /\ target = {}
    /\ q = {} /\ q2 = Unset /\ out = None /\ raised = {}
    /\ InitOtherSections
    /\ InitNoSps
    /\ InitLoaded

\* q1 = ...subquery() ; q2 = db.dbSession.query(db.ZCat, q1)...all()
JoinQueryCell ==
    /\ pc = "join_query"
    /\ q2' = Q2
    /\ pc' = "join_check"
    /\ UNCHANGED <<backend, dbvars, q, out, raised, moonvars, progvars, loadvars, spsvars>>

\* all([row.ZCat.numexp == row.n_assign for row in q2])
JoinCheckCell ==
    /\ pc = "join_check"
    /\ out' = (\A row \in q2 : row.ZCat.numexp = row.n_assign)
    /\ pc' = "join_done"
    /\ UNCHANGED <<backend, dbvars, q, q2, raised, moonvars, progvars, loadvars, spsvars>>

NextJoin == JoinQueryCell \/ JoinCheckCell

SpecJoin == InitJoin /\ [][NextJoin]_vars

\* The number of (fiber assignment, exposure) pairs of target t, as the claim
\* counts them.
NPairs(t) ==
    Cardinality({p \in fiberassign \X obslist :
                    p[1].targetid = t /\ p[2].tileid = p[1].tileid})

\* C2 as stated: the check displays True if and only if numexp equals the
\* number of pairs for every target of zcat.
C2_AsStated ==
    pc = "join_done" =>
        (out = TRUE <=> \A z \in zcat : z.numexp = NPairs(z.targetid))

\* C2 amended: the check displays True if and only if numexp equals the
\* number of pairs for every target of zcat that has at least one pair; a
\* target without any pair is not compared at all.
C2_CheckedTargets ==
    pc = "join_done" =>
        (out = TRUE <=>
            \A z \in zcat : NPairs(z.targetid) > 0 => z.numexp = NPairs(z.targetid))

\* The check has displayed True although a target that was observed twice
\* was compared, and False in another run is covered by the equivalence.
C2_Witness ==
    /\ pc = "join_done"
    /\ out = TRUE
    /\ \E z \in zcat : NPairs(z.targetid) >= 2
    /\ \E z \in zcat : NPairs(z.targetid) = 0 /\ z.numexp # 0

-----------------------------------------------------------------------------
(* "Fly me to the Moon": objects observed with the Moon up and down.       *)
ELG == 2                \* desi_mask.ELG, the mask of bit 1
MoonDownLimit == 8342   \* the slice [:8342] of the Moon-down result

\* desi_target.op('&')(desi_mask.ELG) != 0: the bit of ELG is set
IsELG(row) == (row.desi_target \div ELG) % 2 # 0

TargetOf(f) ==
    {[targetid |-> t, desi_target |-> f[t][1]] : t \in {u \in TargetIds : f[u] # NoRow}}

TruthOf(present) ==
    {[targetid |-> t, truez |-> 20, templatetype |-> Pad(S_ELG)] : t \in present}

\* query(expid, moonsep, moonalt, moonfrac).filter(db.ObsList.moonalt > 0)
MoonUpQuery == {ob \in obslist : ob.moonalt > 0}

\* The joined rows of Truth, Target, ZCat, FiberAssign and ObsList of the
\* q_up and q_dn queries, before the filter on expid.  A row is named by the
\* keys of the rows joined; the selected columns (targetid, truez, z, zwarn,
\* dz) are read from them.
MoonJoin ==
    {[targetid |-> j.fa.targetid, tileid |-> j.fa.tileid, fiber |-> j.fa.fiber,
      expid |-> j.ob.expid] :
        j \in {k \in JoinAssignObs :
                 /\ \E z \in zcat : z.targetid = k.fa.targetid
                 /\ \E t \in truth : t.targetid = k.fa.targetid
                 /\ \E t \in target : t.targetid = k.fa.targetid /\ IsELG(t)}}

\* .filter(db.ObsList.expid.in_(expid_up))
QUp == {r \in MoonJoin : r.expid \in expid_up}

\* .filter(~db.ObsList.expid.in_(expid_up))
QDn == {r \in MoonJoin : r.expid \notin expid_up}

InitMoon ==
    /\ pc = "moon_query"
    /\ backend = "sqlite"
    /\ \E f \in [ExpIds -> {NoRow} \cup (TileIds \X {0, 1} \X {0})] : obslist = ObsListOf(f)
    /\ \E g \in [TargetIds -> SUBSET TileIds] : fiberassign = FiberAssignOf(g)
    /\ \E f \in [TargetIds -> {NoRow} \cup {<<1>>}] : zcat = ZCatOf(f)
    /\ \E f \in [TargetIds -> {NoRow} \cup {<<1>>, <<ELG>>, <<ELG + 1>>}] : target = TargetOf(f)
    /\ truth = TruthOf(TargetIds)
    /\ q = {} /\ q2 = Unset /\ out = None /\ raised = {}
    /\ InitOtherSections
    /\ InitNoSps
    /\ InitLoaded

\* q = query(ObsList.expid, ...).filter(ObsList.moonalt > 0).all()
MoonQueryCell ==
    /\ pc = "moon_query"
    /\ q' = MoonUpQuery
    /\ pc' = "moon_expid_up"
    /\ UNCHANGED <<backend, dbvars, q2, out, raised, moonvars, progvars, loadvars, spsvars>>

\* expid_up = [x[0] for x in q] ; q = ...join....all() ; ... = zip(*q)
\* Unpacking zip(*q) raises ValueError when the query returned no row.
ExpidUpCell ==
    /\ pc = "moon_expid_up"
    /\ expid_up' = {ob.expid : ob \in q}
    /\ q' = {r \in {[targetid |-> j.fa.targetid, tileid |-> j.fa.tileid,
                      fiber |-> j.fa.fiber, expid |-> j.ob.expid] :
                        j \in {k \in JoinAssignObs :
                                 /\ \E z \in zcat : z.targetid = k.fa.targetid
                                 /\ \E t \in target : t.targetid = k.fa.targetid}} :
                r.expid \in expid_up'}
    /\ raised' = IF q' = {} THEN raised \cup {"moon_expid_up"} ELSE raised
    /\ pc' = "moon_up_dn"
    /\ UNCHANGED <<backend, dbvars, q2, out, q_up, q_dn, progvars, loadvars, spsvars>>

\* q_up = ....all() ; q_dn = ....all()[:8342] ; ... = zip(*q_up) ; zip(*q_dn)
\* The slice keeps the first 8342 rows of a result the query does not order.
MoonUpDownCell ==
    /\ pc = "moon_up_dn"
    /\ q_up' = QUp
    /\ IF Cardinality(QDn) <= MoonDownLimit
       THEN q_dn' = QDn
       ELSE \E s \in SUBSET QDn : Cardinality(s) = MoonDownLimit /\ q_dn' = s
    /\ raised' = IF q_up' = {} \/ q_dn' = {} THEN raised \cup {"moon_up_dn"} ELSE raised
    /\ pc' = "moon_done"
    /\ UNCHANGED <<backend, dbvars, q, q2, out, expid_up, progvars, loadvars, spsvars>>

NextMoon == MoonQueryCell \/ ExpidUpCell \/ MoonUpDownCell

SpecMoon == InitMoon /\ [][NextMoon]_vars

\* The exposures of target t: those of the tiles it is assigned to.
ExposuresOf(t) ==
    {ob.expid : ob \in {o \in obslist :
        \E fa \in fiberassign : fa.targetid = t /\ fa.tileid = o.tileid}}

\* C3: every target of q_up has all of its exposures with the Moon up, every
\* target of q_dn has none of them with the Moon up, and no target is in
\* both results.
C3_OnlyUpOnlyDown ==
    pc = "moon_done" =>
        /\ \A r \in q_up : ExposuresOf(r.targetid) \subseteq expid_up
        /\ \A r \in q_dn : ExposuresOf(r.targetid) \cap expid_up = {}
        /\ {r.targetid : r \in q_up} \cap {r.targetid : r \in q_dn} = {}

-----------------------------------------------------------------------------
(* "Survey Progress": the last observation of every observed target.       *)
(* numpy arrays are sequences; their indices start at 1 here and at 0 in   *)
(* numpy, which leaves i + (c - 1) the index of the last row of a group.   *)
MjdValues == {1, 2}

RECURSIVE SortInts(_)
\* The sorted sequence of a set of integers
SortInts(S) ==
    IF S = {} THEN <<>>
    ELSE LET m == CHOOSE x \in S : \A y \in S : x <= y
         IN <<m>> \o SortInts(S \ {m})

\* ORDER BY targetid, expid (the tile and fiber make the order total)
RowLeq(a, b) ==
    \/ a.targetid < b.targetid
    \/ a.targetid = b.targetid /\ a.expid < b.expid
    \/ a.targetid = b.targetid /\ a.expid = b.expid /\ a.tileid < b.tileid
    \/ a.targetid = b.targetid /\ a.expid = b.expid /\ a.tileid = b.tileid
         /\ a.fiber <= b.fiber

RECURSIVE OrderBy(_)
OrderBy(S) ==
    IF S = {} THEN <<>>
    ELSE LET m == CHOOSE x \in S : \A y \in S : RowLeq(x, y)
         IN <<m>> \o OrderBy(S \ {m})

\* q1: the targetids of Target that have a fiber assignment on an observed tile
ObservedTargets ==
    {t.targetid : t \in {x \in target : \E j \in JoinAssignObs : j.fa.targetid = x.targetid}}

\* q2: (FiberAssign.targetid, ObsList.expid, ObsList.mjd) of FiberAssign
\* joined to q1 and ObsList, ordered by targetid and expid
LastObsQuery ==
    LET rows == {[targetid |-> j.fa.targetid, tileid |-> j.fa.tileid, fiber |-> j.fa.fiber,
                  expid |-> j.ob.expid, mjd |-> j.ob.mjd] :
                    j \in {k \in JoinAssignObs : k.fa.targetid \in ObservedTargets}}
        sorted == OrderBy(rows)
    IN [n \in 1..Len(sorted) |->
            <<sorted[n].targetid, sorted[n].expid, sorted[n].mjd>>]

\* np.unique(a): the sorted distinct values
UniqueValues(a) == SortInts({a[n] : n \in 1..Len(a)})

\* np.unique(a, return_index=True): the index of the first occurrence
UniqueIndex(a, v) == CHOOSE n \in 1..Len(a) : a[n] = v /\ \A m \in 1..(n - 1) : a[m] # v

\* np.unique(a, return_counts=True): the number of occurrences
UniqueCount(a, v) == Cardinality({n \in 1..Len(a) : a[n] = v})

\* A slip: the first row of the group instead of the last.
FirstOfGroup(i, c) == i

\* i + (c-1)
LastOfGroup(i, c) == i + (c - 1)

InitProgress ==
    /\ pc = "last_obs"
    /\ backend = "sqlite"
    /\ \E f \in [ExpIds -> {NoRow} \cup (TileIds \X {0} \X MjdValues)] : obslist = ObsListOf(f)
    /\ \E g \in [TargetIds -> SUBSET TileIds] : fiberassign = FiberAssignOf(g)
    /\ \E f \in [TargetIds -> {NoRow} \cup {<<ELG>>}] : target = TargetOf(f)
    /\ truth = {} /\ zcat = {}
    /\ q = {} /\ q2 = Unset /\ out = None /\ raised = {}
    /\ InitOtherSections
    /\ InitNoSps
    /\ InitLoaded

\* q1 = ... ; q2 = ....all() ; targetid, expid, mjd = zip(*q2) ; np.unique ...
\* Unpacking zip(*q2) raises ValueError when q2 is empty, before np.unique.
LastObsCell ==
    /\ pc = "last_obs"
    /\ q2' = LastObsQuery
    /\ IF q2' = <<>>
       THEN /\ raised' = raised \cup {"last_obs"}
            /\ UNCHANGED <<unique_targetid, unique_expid, unique_mjd>>
       ELSE LET targetid == [n \in 1..Len(q2') |-> q2'[n][1]]
                expid == [n \in 1..Len(q2') |-> q2'[n][2]]
                mjd == [n \in 1..Len(q2') |-> q2'[n][3]]
                u == UniqueValues(targetid)
                i == [k \in 1..Len(u) |-> UniqueIndex(targetid, u[k])]
                c == [k \in 1..Len(u) |-> UniqueCount(targetid, u[k])]
            IN /\ unique_targetid' = u
               /\ unique_expid' = [k \in 1..Len(u) |-> expid[LastOfGroup(i[k], c[k])]]
               /\ unique_mjd' = [k \in 1..Len(u) |-> mjd[LastOfGroup(i[k], c[k])]]
               /\ UNCHANGED raised
    /\ pc' = "completed"
    /\ UNCHANGED <<backend, dbvars, q, out, moonvars, N_completed, loadvars, spsvars>>

\* ii = unique_expid.argsort()
\* unique_targetid, i3, j3, c3 = np.unique(unique_expid[ii], ...)
\* N_completed = np.cumsum(c3)
\* The cell reuses the name unique_targetid for the distinct exposure ids. It
\* raises NameError when the cell before it stopped at the unpacking.
CompletedCell ==
    /\ pc = "completed"
    /\ IF "last_obs" \in raised
       THEN /\ raised' = raised \cup {"completed"}
            /\ UNCHANGED <<unique_targetid, N_completed>>
       ELSE LET u3 == UniqueValues(unique_expid)
                c3 == [k \in 1..Len(u3) |-> UniqueCount(unique_expid, u3[k])]
            IN /\ unique_targetid' = u3
               /\ N_completed' = [k \in 1..Len(u3) |->
                                    Cardinality({n \in 1..Len(unique_expid) :
                                                    unique_expid[n] <= u3[k]})]
               /\ UNCHANGED raised
    /\ pc' = "progress_done"
    /\ UNCHANGED <<backend, dbvars, q, q2, out, moonvars, unique_expid, unique_mjd, loadvars, spsvars>>

NextProgress == LastObsCell \/ CompletedCell

SpecProgress == InitProgress /\ [][NextProgress]_vars

\* The exposures of the tiles target t is assigned to
ObsRowsOf(t) ==
    {ob \in obslist : \E fa \in fiberassign : fa.targetid = t /\ fa.tileid = ob.tileid}

-----------------------------------------------------------------------------
(* "Loading the Database".                                                 *)
(* A file name is a string and a path is a sequence of names, so that      *)
(* os.path.join is concatenation.  Paths are relative to                   *)
(* $DESI_ROOT/datachallenge/reference_runs.                                *)
MaxRuns == 2        \* runs of the notebook on the same database file

N_survey == <<"s", "u", "r", "v", "e", "y">>
N_targets == <<"t", "a", "r", "g", "e", "t", "s">>
N_fiberassign == <<"f", "i", "b", "e", "r", "a", "s", "s", "i", "g", "n">>
N_spectro == <<"s", "p", "e", "c", "t", "r", "o">>
N_redux == <<"r", "e", "d", "u", "x">>
N_mini == <<"m", "i", "n", "i">>
N_dark == <<"d", "a", "r", "k">>
N_exposures_fits == <<"e", "x", "p", "o", "s", "u", "r", "e", "s", ".", "f", "i", "t", "s">>
N_zcatalog_mini_fits == <<"z", "c", "a", "t", "a", "l", "o", "g", "-", "m", "i", "n", "i", ".", "f", "i", "t", "s">>
N_tile_star_fits == <<"t", "i", "l", "e", "-", "*", ".", "f", "i", "t", "s">>
N_fits == <<".", "f", "i", "t", "s">>

\* reference_run = '19.12' ; program = 'dark'
reference_run == <<"1", "9", ".", "1", "2">>
program == N_dark

\* os.path.join
PathJoin(a, b) == a \o b

\* 'truth-{0}.fits'.format(program), 'targets-{0}.fits'.format(program)
Format(prefix, arg, suffix) == prefix \o arg \o suffix

basedir == <<reference_run>>
surveydir == PathJoin(basedir, <<N_survey>>)
targetdir == PathJoin(basedir, <<N_targets>>)
fibassigndir == PathJoin(basedir, <<N_fiberassign>>)
reduxdir == PathJoin(PathJoin(basedir, <<N_spectro, N_redux>>), <<N_mini>>)

ExposuresFile == PathJoin(surveydir, <<N_exposures_fits>>)
TruthFile == PathJoin(targetdir, <<Format(<<"t", "r", "u", "t", "h", "-">>, program, N_fits)>>)
TargetsFile == PathJoin(targetdir, <<Format(<<"t", "a", "r", "g", "e", "t", "s", "-">>, program, N_fits)>>)
ZCatalogFile == PathJoin(reduxdir, <<N_zcatalog_mini_fits>>)
\* db.load_fiberassign(fibassigndir) reads the tile files of the directory
TileFiles == PathJoin(fibassigndir, <<N_tile_star_fits>>)

\* for h in ('BGS', 'ELG', 'LRG', 'QSO', 'STAR', 'WD'): 'TRUTH_' + h
TruthHDUs == {"TRUTH_BGS", "TRUTH_ELG", "TRUTH_LRG", "TRUTH_QSO", "TRUTH_STAR", "TRUTH_WD"}

\* The files of the reference run.  A file maps the name of an HDU to its
\* rows; the rows carry the columns the tables of this model keep.
DiskOf(fexp, present, badfibers) ==
    [p \in {ExposuresFile, TruthFile, TargetsFile, ZCatalogFile, TileFiles} |->
        CASE p = ExposuresFile ->
                [h \in {"EXPOSURES"} |->
                    {[expid |-> e, tileid |-> fexp[e][1], moonalt |-> 0, mjd |-> e,
                      PROGRAM |-> fexp[e][2]] : e \in {x \in ExpIds : fexp[x] # NoRow}}]
          [] p = TruthFile ->
                [h \in {"TRUTH"} \cup TruthHDUs |->
                    IF h \in {"TRUTH", "TRUTH_QSO"}
                    THEN {[targetid |-> t, truez |-> 25, templatetype |-> Pad(S_QSO)] :
                            t \in present}
                    ELSE {}]
          [] p = TargetsFile ->
                [h \in {"TARGETS"} |-> {[targetid |-> t, desi_target |-> ELG] : t \in present}]
          [] p = ZCatalogFile ->
                [h \in {"ZCATALOG"} |->
                    {[targetid |-> t, numexp |-> 1] :
                        t \in present \cup (IF badfibers THEN {0, -1} ELSE {})}]
          [] OTHER ->
                [h \in {"FIBERASSIGN"} |->
                    {[tileid |-> tl, fiber |-> t, targetid |-> t] :
                        tl \in {1}, t \in present}]]

\* A database left by an earlier use of the file: rows of an older release,
\* with a templatetype an earlier Updates cell committed.
StaleTables ==
    [obslist |-> {[expid |-> 1, tileid |-> 2, moonalt |-> 1, mjd |-> 2]},
     truth |-> {[targetid |-> 1, truez |-> 25, templatetype |-> S_QSO_L]},
     target |-> {[targetid |-> 1, desi_target |-> 1]},
     zcat |-> {[targetid |-> 1, numexp |-> 2]},
     fiberassign |-> {[tileid |-> 2, fiber |-> 1, targetid |-> 1]}]

EmptyTables ==
    [obslist |-> {}, truth |-> {}, target |-> {}, zcat |-> {}, fiberassign |-> {}]

Tables ==
    [obslist |-> obslist, truth |-> truth, target |-> target, zcat |-> zcat,
     fiberassign |-> fiberassign]

\* db.setup_db(dbfile=..., overwrite=...): with overwrite an existing file is
\* removed first; the tables that do not exist are then created, empty, and
\* the tables that exist are left as they are.
SetupDb(overwrite) ==
    IF overwrite \/ ~dbexists THEN EmptyTables ELSE Tables

\* The primary key of a row of table t
KeyOf(t, row) ==
    CASE t = "obslist" -> <<row.expid>>
      [] t = "fiberassign" -> <<row.tileid, row.fiber>>
      [] OTHER -> <<row.targetid>>

\* db.load_file and db.load_fiberassign insert the rows; a row whose key is
\* in the table already raises IntegrityError and nothing is inserted.
Conflict(t, tbl, rows) ==
    \E r \in rows : \E o \in tbl : KeyOf(t, r) = KeyOf(t, o)

LoadRows(t, tbl, rows) == IF Conflict(t, tbl, rows) THEN tbl ELSE tbl \cup rows

\* rowfilter=lambda x: (x['PROGRAM'] != 'CALIB')
ExposureFilter(x) == x.PROGRAM # "CALIB"

\* rowfilter=lambda x: ((x['TARGETID'] != 0) & (x['TARGETID'] != -1))
ZCatFilter(x) == x.targetid # 0 /\ x.targetid # -1

\* A slip: the create cell written without overwrite.
CreateOverwriteForgotten == FALSE

\* overwrite=True of the "Create the Empty Database" cell
CreateOverwrite == TRUE

\* A slip: the create cell's call copied with its overwrite=True.
ExistsOverwriteCopied == TRUE

\* the "Database Already Exists?" cell passes no overwrite (the default)
ExistsOverwrite == FALSE

LoadCells == {"load_obslist", "load_truth_target", "load_zcat", "load_fiberassign"}

InitLoad ==
    /\ pc = "create"
    /\ backend = "sqlite"
    /\ \E fexp \in [ExpIds -> {NoRow} \cup (TileIds \X {"DARK", "CALIB"})] :
       \E present \in SUBSET TargetIds : \E badfibers \in BOOLEAN :
          disk = DiskOf(fexp, present, badfibers)
    /\ \E origin \in {EmptyTables, StaleTables} :
          /\ dbexists = (origin # EmptyTables)
          /\ obslist = origin.obslist /\ truth = origin.truth /\ target = origin.target
          /\ zcat = origin.zcat /\ fiberassign = origin.fiberassign
    /\ loads = {} /\ snapshot = <<>> /\ route = "fresh" /\ nruns = 1
    /\ q = {} /\ q2 = Unset /\ out = None /\ raised = {}
    /\ InitOtherSections
    /\ InitNoSps

nbvars == <<q, q2, out, moonvars, progvars>>

\* postgresql = db.setup_db(dbfile=..., overwrite=True)
CreateCell ==
    /\ pc = "create"
    /\ LET t == SetupDb(CreateOverwrite)
       IN /\ obslist' = t.obslist /\ truth' = t.truth /\ target' = t.target
          /\ zcat' = t.zcat /\ fiberassign' = t.fiberassign
    /\ dbexists' = TRUE
    /\ route' = "fresh"
    /\ pc' = "load_obslist"
    /\ UNCHANGED <<backend, nbvars, raised, disk, loads, snapshot, nruns, spsvars>>

\* db.load_file(os.path.join(surveydir, 'exposures.fits'), db.ObsList,
\*              hdu='EXPOSURES', expand=..., rowfilter=...)
LoadExposuresCell ==
    /\ pc = "load_obslist"
    /\ LET rows == {[expid |-> x.expid, tileid |-> x.tileid, moonalt |-> x.moonalt,
                     mjd |-> x.mjd] :
                        x \in {y \in disk[ExposuresFile]["EXPOSURES"] : ExposureFilter(y)}}
       IN /\ obslist' = LoadRows("obslist", obslist, rows)
          /\ raised' = IF Conflict("obslist", obslist, rows)
                       THEN raised \cup {"load_obslist"} ELSE raised
    /\ loads' = loads \cup {[table |-> "obslist", path |-> ExposuresFile, hdu |-> "EXPOSURES"]}
    /\ pc' = "load_truth_target"
    /\ UNCHANGED <<backend, truth, target, zcat, fiberassign, nbvars, disk, dbexists,
                   snapshot, route, nruns, spsvars>>

\* db.load_file(truth file, db.Truth, hdu='TRUTH') ; db.update_truth(truth
\* file, 'TRUTH_' + h) for the six classes ; db.load_file(targets file,
\* db.Target, hdu='TARGETS', expand=...).  update_truth fills the columns of
\* a class, none of which a table of this model keeps.  An exception ends
\* the cell where it is raised.
LoadTruthTargetCell ==
    /\ pc = "load_truth_target"
    /\ LET trows == disk[TruthFile]["TRUTH"]
           grows == disk[TargetsFile]["TARGETS"]
           tfail == Conflict("truth", truth, trows)
           gfail == Conflict("target", target, grows)
       IN /\ truth' = LoadRows("truth", truth, trows)
          /\ target' = IF tfail THEN target ELSE LoadRows("target", target, grows)
          /\ raised' = IF tfail \/ gfail
                       THEN raised \cup {"load_truth_target"} ELSE raised
          /\ loads' = loads
                \cup {[table |-> "truth", path |-> TruthFile, hdu |-> "TRUTH"]}
                \cup (IF tfail THEN {}
                      ELSE {[table |-> "truth", path |-> TruthFile, hdu |-> h] :
                                h \in TruthHDUs}
                           \cup {[table |-> "target", path |-> TargetsFile,
                                  hdu |-> "TARGETS"]})
    /\ pc' = "load_zcat"
    /\ UNCHANGED <<backend, obslist, zcat, fiberassign, nbvars, disk, dbexists,
                   snapshot, route, nruns, spsvars>>

\* db.load_file(os.path.join(reduxdir, 'zcatalog-mini.fits'), db.ZCat,
\*              hdu="ZCATALOG", expand=..., rowfilter=...)
LoadZCatCell ==
    /\ pc = "load_zcat"
    /\ LET rows == {x \in disk[ZCatalogFile]["ZCATALOG"] : ZCatFilter(x)}
       IN /\ zcat' = LoadRows("zcat", zcat, rows)
          /\ raised' = IF Conflict("zcat", zcat, rows)
                       THEN raised \cup {"load_zcat"} ELSE raised
    /\ loads' = loads \cup {[table |-> "zcat", path |-> ZCatalogFile, hdu |-> "ZCATALOG"]}
    /\ pc' = "load_fiberassign"
    /\ UNCHANGED <<backend, obslist, truth, target, fiberassign, nbvars, disk, dbexists,
                   snapshot, route, nruns, spsvars>>

\* db.load_fiberassign(fibassigndir)
LoadFiberassignCell ==
    /\ pc = "load_fiberassign"
    /\ LET rows == disk[TileFiles]["FIBERASSIGN"]
       IN /\ fiberassign' = LoadRows("fiberassign", fiberassign, rows)
          /\ raised' = IF Conflict("fiberassign", fiberassign, rows)
                       THEN raised \cup {"load_fiberassign"} ELSE raised
          /\ snapshot' = Append(snapshot,
                [Tables EXCEPT !.fiberassign = LoadRows("fiberassign", fiberassign, rows)])
    /\ loads' = loads \cup {[table |-> "fiberassign", path |-> TileFiles,
                              hdu |-> "FIBERASSIGN"]}
    /\ pc' = "exists"
    /\ UNCHANGED <<backend, obslist, truth, target, zcat, nbvars, disk, dbexists,
                   route, nruns, spsvars>>

\* postgresql = db.setup_db(dbfile=...)
\* "If the database already exists, just skip to this step": the cell is
\* also the first one run when the file exists.
ExistsCell ==
    /\ \/ pc = "exists"
       \/ pc = "create" /\ dbexists
    /\ LET t == SetupDb(ExistsOverwrite)
       IN /\ obslist' = t.obslist /\ truth' = t.truth /\ target' = t.target
          /\ zcat' = t.zcat /\ fiberassign' = t.fiberassign
    /\ dbexists' = TRUE
    /\ route' = IF pc = "create" THEN "existing" ELSE route
    /\ pc' = "tables"
    /\ UNCHANGED <<backend, nbvars, raised, disk, loads, snapshot, nruns, spsvars>>

\* The notebook is run again from the top, on the database file it left.
RunAgain ==
    /\ pc = "tables"
    /\ nruns < MaxRuns
    /\ nruns' = nruns + 1
    /\ loads' = {}
    /\ pc' = "create"
    /\ UNCHANGED <<backend, dbvars, nbvars, raised, disk, dbexists, snapshot, route, spsvars>>

NextLoad ==
    \/ CreateCell \/ LoadExposuresCell \/ LoadTruthTargetCell \/ LoadZCatCell
    \/ LoadFiberassignCell \/ ExistsCell \/ RunAgain

SpecLoad == InitLoad /\ [][NextLoad]_vars

C9_ReloadSame ==
    /\ pc = "load_obslist" => Tables = EmptyTables
    /\ raised \cap LoadCells = {}
    /\ \A i, j \in 1..Len(snapshot) : snapshot[i] = snapshot[j]

\* The create and load cells have run twice and loaded rows in every table.
C9_Witness ==
    /\ Len(snapshot) = 2
    /\ \A t \in DOMAIN EmptyTables : snapshot[2][t] # {}

\* The paths the introduction of the notebook lists, by table
DocumentedFiles ==
    {<<"obslist", <<reference_run, N_survey, N_exposures_fits>>>>,
     <<"truth", <<reference_run, N_targets, <<"t", "r", "u", "t", "h">> \o N_fits>>>>,
     <<"target", <<reference_run, N_targets, <<"t", "a", "r", "g", "e", "t">> \o N_fits>>>>,
     <<"zcat", <<reference_run, N_spectro, N_redux, N_mini, N_zcatalog_mini_fits>>>>,
     <<"fiberassign", <<reference_run, N_fiberassign, N_tile_star_fits>>>>}

\* C10: once the load cells have run, the tables were populated from exactly
\* the five files the introduction lists, one per table.
C10_DocumentedFiles ==
    pc = "exists" => {<<l.table, l.path>> : l \in loads} = DocumentedFiles

-----------------------------------------------------------------------------
(* The SPS notebook: fitting a galaxy spectrum.                            *)
(* A parameter vector is a point v of a small grid with the space it lives *)
(* in: "sampling" (what priors.sample, the optimiser and the sampler       *)
(* handle) or "model" (what the emulator takes).  Log-probabilities are    *)
(* held doubled, so that -0.5 * chi2 is the integer -chi2; fluxes, inverse *)
(* variances, wavelengths and redshifts are small integers.                *)
MaxPix == 2         \* wavelength pixels are 1..MaxPix
MaxEval == 2        \* evaluations of lnPost by op.minimize after the first
MaxTheta == 3       \* the optimiser visits the points 0..MaxTheta

Pixels == 1..MaxPix
Galaxies == {0, 1, 2}
PriorSupport == {1, 2}      \* the points where the prior density is not zero

Theta(v) == [space |-> "sampling", v |-> v]
Thetas == {Theta(v) : v \in 0..MaxTheta}
SupportThetas == {Theta(v) : v \in PriorSupport}

NegInf == [inf |-> TRUE, v |-> 0]       \* -np.inf
Fin(n) == [inf |-> FALSE, v |-> n]

\* priors.transform: from the sampling space to the space of the SPS model
Transform(theta) == [space |-> "model", v |-> 2 * theta.v + 1]

\* priors.lnPrior, doubled: finite exactly on the support of the prior
LnPrior(theta) ==
    IF theta.space = "sampling" /\ theta.v \in PriorSupport
    THEN Fin(-2 * theta.v)
    ELSE NegInf

\* fsps_emulator.sed(theta, zred, wavelength=...): the model flux per pixel
Sed(theta, z, wave) == [p \in DOMAIN wave |-> (theta.v + z + wave[p]) % 3]

RECURSIVE SumTo(_, _)
\* np.sum over the pixels 1..n
SumTo(f, n) == IF n = 0 THEN 0 ELSE f[n] + SumTo(f, n - 1)

\* A slip: the residuals summed without the inverse variance.
Chi2Unweighted(flux, obs, ivar) ==
    SumTo([p \in DOMAIN obs |-> (flux[p] - obs[p]) * (flux[p] - obs[p])], Len(obs))

\* dflux = flux - obs ; chi2 = np.sum(dflux**2 * ivar)
Chi2(flux, obs, ivar) ==
    SumTo([p \in DOMAIN obs |-> (flux[p] - obs[p]) * (flux[p] - obs[p]) * ivar[p]],
          Len(obs))

\* A call of the emulator: the function, the cell and the space of the vector
Call(fn, cell, theta) == [fn |-> fn, cell |-> cell, space |-> theta.space]

\* def lnPost(theta): the value returned, the calls made on the way, and the
\* globals the call read
LnPost(theta) ==
    LET lp == LnPrior(theta)
        used == [prior |-> priors, zred |-> zred, wave |-> spectra.wave, igal |-> igal,
                 flux |-> spectra.flux[igal], ivar |-> spectra.ivar[igal]]
    IN IF lp.inf
       THEN [theta |-> theta, value |-> NegInf, trace |-> <<"lnPrior">>,
             calls |-> {}, used |-> used]
       ELSE LET ttheta == Transform(theta)
                flux == Sed(ttheta, zred, spectra.wave)
                chi2 == Chi2(flux, spectra.flux[igal], spectra.ivar[igal])
                lnLike == -chi2
            IN [theta |-> theta, value |-> Fin(lp.v + lnLike),
                trace |-> <<"lnPrior", "transform", "sed">>,
                calls |-> {Call("sed", "lnPost", ttheta)}, used |-> used]

\* _lnpost = lambda *args: -2. * lnPost(*args), doubled like lnPost
Objective(value) == IF value.inf THEN [inf |-> TRUE, v |-> 0] ELSE Fin(-2 * value.v)

\* a < b for objective values, +inf being the greatest
Lower(a, b) == ~a.inf /\ (b.inf \/ a.v < b.v)


\* The spectra file: the flux and inverse variance of the fitted galaxy vary,
\* the other galaxies of the file have flux 2 and inverse variance 1.
SpectraOf(f, iv) ==
    [wave |-> [p \in Pixels |-> p],
     flux |-> [g \in Galaxies |-> IF g = 2 THEN f ELSE [p \in Pixels |-> 2]],
     ivar |-> [g \in Galaxies |-> IF g = 2 THEN iv ELSE [p \in Pixels |-> 1]]]

\* A slip: the data of the first galaxy of the file.
McmcArgsFirstGalaxy ==
    [wave_obs |-> spectra.wave, flux_obs |-> spectra.flux[0],
     flux_ivar_obs |-> spectra.ivar[0], zred |-> zred, sampler |-> "zeus",
     nwalkers |-> 100, burnin |-> 100, opt_maxiter |-> 10000, niter |-> 1000,
     debug |-> TRUE]

\* The keyword arguments of desi_mcmc.run(...)
McmcArgs ==
    [wave_obs |-> spectra.wave, flux_obs |-> spectra.flux[igal],
     flux_ivar_obs |-> spectra.ivar[igal], zred |-> zred, sampler |-> "zeus",
     nwalkers |-> 100, burnin |-> 100, opt_maxiter |-> 10000, niter |-> 1000,
     debug |-> TRUE]

InitSps ==
    /\ pc = "basis"
    /\ backend = "sqlite"
    /\ obslist = {} /\ truth = {} /\ target = {} /\ zcat = {} /\ fiberassign = {}
    /\ q = {} /\ q2 = Unset /\ out = None /\ raised = {}
    /\ InitOtherSections
    /\ InitLoaded
    /\ InitNoSps

dbnbvars == <<backend, dbvars, q, q2, out, raised, moonvars, progvars, loadvars>>

\* fsps_emulator.SFH(_tt, 0.) and fsps_emulator.ZH(_tt, 0.) on unit vectors,
\* then fsps_emulator.sed(np.array([10., 0.25, ...]), 0.1): vectors written in
\* the space of the model
BasisCells ==
    /\ pc = "basis"
    /\ calls' = calls \cup {[fn |-> f, cell |-> "basis", space |-> "model"] :
                              f \in {"SFH", "ZH", "sed"}}
    /\ pc' = "priors"
    /\ UNCHANGED <<dbnbvars, priors, random_thetas, tt, spectra, igal, zbest, zred, x0,
                   simplex, theta_bestfit, lnp, desi_mcmc, mcmc>>

\* priors = Infer.load_priors([...])
PriorsCell ==
    /\ pc = "priors"
    /\ priors' = [support |-> PriorSupport]
    /\ pc' = "sample"
    /\ UNCHANGED <<dbnbvars, random_thetas, tt, spectra, igal, zbest, zred, x0,
                   simplex, theta_bestfit, lnp, calls, desi_mcmc, mcmc>>

\* random_thetas = [priors.sample() for i in range(5)]
SampleCell ==
    /\ pc = "sample"
    /\ random_thetas' \in [1..5 -> SupportThetas]
    /\ pc' = "plot_random"
    /\ UNCHANGED <<dbnbvars, priors, tt, spectra, igal, zbest, zred, x0,
                   simplex, theta_bestfit, lnp, calls, desi_mcmc, mcmc>>

\* for tt in random_thetas: wave, flux = fsps_emulator.sed(priors.transform(tt), 0.1)
PlotRandomCell ==
    /\ pc = "plot_random"
    /\ calls' = calls \cup {Call("sed", "plot_random", Transform(random_thetas[n])) :
                              n \in 1..Len(random_thetas)}
    /\ tt' = random_thetas[Len(random_thetas)]
    /\ pc' = "read_spectra"
    /\ UNCHANGED <<dbnbvars, priors, random_thetas, spectra, igal, zbest, zred, x0,
                   simplex, theta_bestfit, lnp, desi_mcmc, mcmc>>

\* spectra = read_spectra('coadd-...few.fits') ; igal = 2
ReadSpectraCell ==
    /\ pc = "read_spectra"
    /\ \E f \in [Pixels -> {0, 1}] : \E iv \in [Pixels -> {0, 2}] :
          spectra' = SpectraOf(f, iv)
    /\ igal' = 2
    /\ pc' = "zbest"
    /\ UNCHANGED <<dbnbvars, priors, random_thetas, tt, zbest, zred, x0,
                   simplex, theta_bestfit, lnp, calls, desi_mcmc, mcmc>>

\* zbest = Table.read('zbest.coadd.fits', hdu=1) ; zred = zbest['Z'][igal]
ZbestCell ==
    /\ pc = "zbest"
    /\ \E z \in {1, 2} : zbest' = [g \in Galaxies |-> IF g = igal THEN z ELSE 0]
    /\ zred' = zbest'[igal]
    /\ pc' = "minimize"
    /\ UNCHANGED <<dbnbvars, priors, random_thetas, tt, spectra, igal, x0,
                   simplex, theta_bestfit, lnp, calls, desi_mcmc, mcmc>>

\* x0 = np.mean([priors.sample() for i in range(10)], axis=0)
\* min_result = op.minimize(_lnpost, tt, method='Nelder-Mead', ...)
\* The mean of samples of the support lies between its least and greatest
\* point.  The minimisation starts by evaluating its start point, which the
\* cell gives as tt.
MinimizeCell ==
    /\ pc = "minimize"
    /\ \E v \in PriorSupport : x0' = Theta(v)
    /\ LET r == LnPost(tt)
       IN /\ lnp' = r
          /\ calls' = calls \cup r.calls
          /\ simplex' = [start |-> tt, best |-> tt, f |-> Objective(r.value), n |-> 0]
    /\ pc' = "minimizing"
    /\ UNCHANGED <<dbnbvars, priors, random_thetas, tt, spectra, igal, zbest, zred,
                   theta_bestfit, desi_mcmc, mcmc>>

\* One more evaluation of _lnpost by Nelder-Mead, at a point of its choice;
\* a point with a lower value becomes the best one.
MinimizeEval ==
    /\ pc = "minimizing"
    /\ simplex.n < MaxEval
    /\ \E theta \in Thetas :
          LET r == LnPost(theta)
              f == Objective(r.value)
          IN /\ lnp' = r
             /\ calls' = calls \cup r.calls
             /\ simplex' = IF Lower(f, simplex.f)
                           THEN [simplex EXCEPT !.best = theta, !.f = f, !.n = @ + 1]
                           ELSE [simplex EXCEPT !.n = @ + 1]
    /\ UNCHANGED <<pc, dbnbvars, priors, random_thetas, tt, spectra, igal, zbest, zred,
                   x0, theta_bestfit, desi_mcmc, mcmc>>

\* op.minimize returns ; theta_bestfit = min_result['x']
\* _, flux_bestfit = fsps_emulator.sed(priors.transform(theta_bestfit), zred, ...)
BestfitCell ==
    /\ pc = "minimizing"
    /\ theta_bestfit' = simplex.best
    /\ calls' = calls \cup {Call("sed", "bestfit", Transform(theta_bestfit'))}
    /\ pc' = "sfh_zh"
    /\ UNCHANGED <<dbnbvars, priors, random_thetas, tt, spectra, igal, zbest, zred, x0,
                   simplex, lnp, desi_mcmc, mcmc>>

\* tage, sfh = fsps_emulator.SFH(theta_bestfit, zred)
\* _, zh = fsps_emulator.ZH(theta_bestfit, zred)
SfhZhCell ==
    /\ pc = "sfh_zh"
    /\ calls' = calls \cup {Call("SFH", "sfh_zh", theta_bestfit),
                            Call("ZH", "sfh_zh", theta_bestfit)}
    /\ pc' = "mcmc_init"
    /\ UNCHANGED <<dbnbvars, priors, random_thetas, tt, spectra, igal, zbest, zred, x0,
                   simplex, theta_bestfit, lnp, desi_mcmc, mcmc>>

\* desi_mcmc = Infer.desiMCMC(prior=priors)
McmcInitCell ==
    /\ pc = "mcmc_init"
    /\ desi_mcmc' = [prior |-> priors]
    /\ pc' = "mcmc_run"
    /\ UNCHANGED <<dbnbvars, priors, random_thetas, tt, spectra, igal, zbest, zred, x0,
                   simplex, theta_bestfit, lnp, calls, mcmc>>

\* mcmc = desi_mcmc.run(wave_obs=..., flux_obs=..., flux_ivar_obs=..., zred=zred, ...)
\* The chain it returns holds points of the support of the prior.
McmcRunCell ==
    /\ pc = "mcmc_run"
    /\ \E last \in SupportThetas :
          mcmc' = [prior |-> desi_mcmc.prior, args |-> McmcArgs, last |-> last]
    /\ pc' = "chain"
    /\ UNCHANGED <<dbnbvars, priors, random_thetas, tt, spectra, igal, zbest, zred, x0,
                   simplex, theta_bestfit, lnp, calls, desi_mcmc>>

\* markov_chain = desi_mcmc._flatten_chain(mcmc['mcmc_chain'])
\* for tt in markov_chain[-10000:]: fsps_emulator.SFH(tt, zred) ; .ZH(tt, zred)
ChainCells ==
    /\ pc = "chain"
    /\ tt' = mcmc.last
    /\ calls' = calls \cup {Call("SFH", "chain", mcmc.last), Call("ZH", "chain", mcmc.last)}
    /\ pc' = "sps_done"
    /\ UNCHANGED <<dbnbvars, priors, random_thetas, spectra, igal, zbest, zred, x0,
                   simplex, theta_bestfit, lnp, desi_mcmc, mcmc>>

NextSps ==
    \/ BasisCells \/ PriorsCell \/ SampleCell \/ PlotRandomCell \/ ReadSpectraCell
    \/ ZbestCell \/ MinimizeCell \/ MinimizeEval \/ BestfitCell \/ SfhZhCell
    \/ McmcInitCell \/ McmcRunCell \/ ChainCells

SpecSps == InitSps /\ [][NextSps]_vars

\* C5: at every call of sed, SFH and ZH made on random_thetas, on theta
\* inside lnPost and on theta_bestfit, the vector has been passed through
\* priors.transform.
C5_AlwaysTransformed ==
    \A c \in calls :
        c.cell \in {"plot_random", "lnPost", "bestfit", "sfh_zh"} => c.space = "model"

AfterLnPost == {"minimizing", "sfh_zh", "mcmc_init", "mcmc_run", "chain", "sps_done"}

\* C6: lnPost(theta) returns -inf after calling lnPrior only when lnPrior is
\* not finite; otherwise it returns lnPrior(theta) - 0.5 * chi2 (here doubled:
\* 2 lnPrior - chi2), chi2 being the sum over the pixels of (model flux -
\* flux of galaxy igal)^2 * inverse variance of galaxy igal.
C6_LnPostValue ==
    pc \in AfterLnPost =>
        IF LnPrior(lnp.theta).inf
        THEN lnp.value = NegInf /\ lnp.trace = <<"lnPrior">> /\ lnp.calls = {}
        ELSE LET model == Sed(Transform(lnp.theta), zred, spectra.wave)
                 term(p) == (model[p] - spectra.flux[igal][p])
                              * (model[p] - spectra.flux[igal][p]) * spectra.ivar[igal][p]
                 terms == [p \in Pixels |-> term(p)]
             IN /\ lnp.value.inf = FALSE
                /\ lnp.value.v = LnPrior(lnp.theta).v - SumTo(terms, MaxPix)

\* lnPost has returned -inf for a point off the support, after a finite
\* value with a non-zero chi2 was the best of the minimisation.
C6_Witness ==
    /\ pc = "minimizing"
    /\ LnPrior(lnp.theta).inf
    /\ lnp.value = NegInf
    /\ ~simplex.f.inf
    /\ simplex.f.v > -2 * LnPrior(simplex.best).v
    /\ \E p \in Pixels : spectra.ivar[igal][p] = 0

\* C7: desi_mcmc.run is given the unmodified wavelengths, the flux and the
\* inverse variance of galaxy igal and its redshift from zbest, which are
\* the data lnPost read during the minimisation, and desi_mcmc was built on
\* the priors object lnPost uses.
C7_McmcPassThrough ==
    pc \in {"chain", "sps_done"} =>
        /\ mcmc.args.wave_obs = spectra.wave
        /\ mcmc.args.flux_obs = spectra.flux[igal]
        /\ mcmc.args.flux_ivar_obs = spectra.ivar[igal]
        /\ mcmc.args.zred = zbest[igal]
        /\ mcmc.args.wave_obs = lnp.used.wave
        /\ mcmc.args.flux_obs = lnp.used.flux
        /\ mcmc.args.flux_ivar_obs = lnp.used.ivar
        /\ mcmc.args.zred = lnp.used.zred
        /\ igal = lnp.used.igal
        /\ mcmc.prior = priors
        /\ mcmc.prior = lnp.used.prior

\* The run was given a spectrum that differs from the other galaxies' in
\* flux and in inverse variance, after a minimisation that used lnPost.
C7_Witness ==
    /\ pc = "chain"
    /\ simplex.n = MaxEval
    /\ mcmc.args.flux_obs # spectra.flux[0]
    /\ mcmc.args.flux_ivar_obs # spectra.ivar[0]

-----------------------------------------------------------------------------
\* C11: the Nelder-Mead minimisation of -2*lnPost starts from x0, the mean of
\* the ten prior samples of its cell, and not from a variable that an earlier
\* plotting cell left behind.
C11_StartsFromX0 ==
    pc = "minimizing" => simplex.start = x0

-----------------------------------------------------------------------------
(* The writes of the database notebook: the Updates section followed by   *)
(* the query of "Efficiency Studies", on a database with rows in every    *)
(* table.                                                                  *)

\* The zcat table with its redshift column, in tenths
ZCatRedshiftOf(f) ==
    {[targetid |-> t, z |-> f[t][1]] : t \in {u \in TargetIds : f[u] # NoRow}}

\* query(db.Truth, db.Target, db.ZCat, ((ZCat.z - Truth.truez)/(1.0 + Truth.truez)).label('dz'))
\*   .filter(Truth.targetid == ZCat.targetid).filter(Target.targetid == ZCat.targetid).all()
\* dz is kept as the fraction the expression divides, redshifts in tenths.
EfficiencyQuery ==
    {[Truth |-> x[1], Target |-> x[2], ZCat |-> x[3],
      dz |-> [num |-> x[3].z - x[1].truez, den |-> 10 + x[1].truez]] :
        x \in {y \in truth \X target \X zcat :
                 y[1].targetid = y[3].targetid /\ y[2].targetid = y[3].targetid}}

InitWrites ==
    /\ pc = "qso_query"
    /\ backend \in {"sqlite", "postgresql"}
    /\ \E f \in [TargetIds -> {NoRow} \cup (TruezValues \X TemplateValues)] :
          truth = {[targetid |-> t, truez |-> f[t][1], templatetype |-> f[t][2]] :
                      t \in {u \in TargetIds : f[u] # NoRow}}
    /\ \E f \in [TargetIds -> {NoRow, <<22>>}] : zcat = ZCatRedshiftOf(f)
    /\ target = TargetOf([t \in TargetIds |-> <<ELG>>])
    /\ obslist = ObsListOf([e \in ExpIds |-> <<1, 0, 0>>])
    /\ fiberassign = FiberAssignOf([t \in TargetIds |-> {1}])
    /\ q = {}
    /\ q2 = Unset
    /\ out = None
    /\ raised = {}
    /\ InitOtherSections
    /\ InitNoSps
    /\ InitLoaded

\* q = db.dbSession.query(db.Truth, db.Target, db.ZCat, ...)...all()
EfficiencyQueryCell ==
    /\ pc = "qso_done"
    /\ q' = EfficiencyQuery
    /\ pc' = "efficiency_done"
    /\ UNCHANGED <<backend, dbvars, q2, out, raised, moonvars, progvars, loadvars, spsvars>>

NextWrites ==
    \/ QSOQueryCell \/ UpdateCell \/ RequeryCell \/ CheckUpdateCell
    \/ EfficiencyQueryCell

SpecWrites == InitWrites /\ [][NextWrites]_vars

\* The rows the update is for: truez >= 2.1 AND templatetype LIKE 'QSO%'
C12_Selected(row) == row.truez >= ZLya /\ Like(row.templatetype, S_QSO)

\* C12: the update and commit are the only write: they change only the
\* templatetype column of the Truth rows with truez >= 2.1 and templatetype
\* LIKE 'QSO%'; the other columns of those rows, the other Truth rows and the
\* rows of obslist, target, zcat and fiberassign stay as they were, and no
\* query cell changes any table.
C12_OnlyWrite ==
    [][/\ obslist' = obslist /\ target' = target
       /\ zcat' = zcat /\ fiberassign' = fiberassign
       /\ pc # "qso_update" => truth' = truth
       /\ pc = "qso_update" =>
             /\ Cardinality(truth') = Cardinality(truth)
             /\ \A row \in truth :
                   IF C12_Selected(row)
                   THEN [row EXCEPT !.templatetype = S_QSO_L] \in truth'
                   ELSE row \in truth']_vars

\* The update rewrote a row, left a QSO row below z = 2.1 with its padding,
\* and the efficiency query has joined the three tables afterwards.
C12_Witness ==
    /\ pc = "efficiency_done"
    /\ \E row \in truth : row.truez >= ZLya /\ row.templatetype = S_QSO_L
    /\ \E row \in truth : row.truez < ZLya /\ row.templatetype = Pad(S_QSO)
    /\ q # {}
    /\ obslist # {} /\ target # {} /\ fiberassign # {}

=============================================================================
